---- MODULE Spec2Model ----
(***************************************************************************)
(* Model of StockService (stock-realtime-service): the code -> identifier  *)
(* mapping (articleCodeMap) and its reload, resolveFieldName, and the      *)
(* reserve / release handlers with their read-then-write store protocol.   *)
(*                                                                         *)
(* Every handler is an async function: it runs synchronously up to an      *)
(* await on a collaborator (the catalog query, findOne, update) and other  *)
(* calls may run while it waits.  A task's pc names the await it is        *)
(* suspended at; one action models the synchronous stretch of code between *)
(* two awaits.                                                             *)
(***************************************************************************)
EXTENDS Integers, Sequences, FiniteSets, TLC

VARIABLES
    ledger,          \* the stock table: article_code -> row (stockModel)
    articleCodeMap,  \* StockService.articleCodeMap: code -> identifier
    catalog,         \* the ARTICULOS table of the external catalog
    now,             \* the wall clock read by new Date()
    calls,           \* number of calls started so far
    task,            \* per call slot: position, payload, locals, result
    cache,           \* the store of cacheManager: key -> entry
    ttl              \* Number(process.env.CACHE_TTL_GLOBAL) || 0, in clock units

vars == <<ledger, articleCodeMap, catalog, now, calls, task, cache, ttl>>

----------------------------------------------------------------------------
(* Bounds of the model *)

MaxCalls == 3
MaxClock == 2

Tasks == {1, 2}

----------------------------------------------------------------------------
(* JavaScript values *)

Null == "<null>"
Undefined == "<undefined>"

\* ToBoolean on the strings that occur: null, undefined and "" are falsy
Truthy(v) == v \notin {Null, Undefined, ""}

\* v || null
OrNull(v) == IF Truthy(v) THEN v ELSE Null

\* v || 0 on a counter column (INTEGER NOT NULL): 0 is its only falsy value
OrZero(v) == IF v = 0 THEN 0 ELSE v

\* obj[key] of a plain object: undefined when the key is not there
Get(obj, key) == IF key \in DOMAIN obj THEN obj[key] ELSE Undefined

Max(a, b) == IF a >= b THEN a ELSE b

LowerLetters ==
    <<"a","b","c","d","e","f","g","h","i","j","k","l","m",
      "n","o","p","q","r","s","t","u","v","w","x","y","z">>
UpperLetters ==
    <<"A","B","C","D","E","F","G","H","I","J","K","L","M",
      "N","O","P","Q","R","S","T","U","V","W","X","Y","Z">>

UpperChar(c) ==
    IF \E i \in DOMAIN LowerLetters : LowerLetters[i] = c
    THEN UpperLetters[CHOOSE i \in DOMAIN LowerLetters : LowerLetters[i] = c]
    ELSE c

\* A warehouse string is a sequence of characters; Str glues it into a key.
RECURSIVE Str(_)
Str(s) == IF s = <<>> THEN "" ELSE Head(s) \o Str(Tail(s))

toUpperCase(s) == [i \in DOMAIN s |-> UpperChar(s[i])]

----------------------------------------------------------------------------
(* The stock table *)

Counters ==
    {"stock_mdp", "stock_ba", "stock_gp", "stock_ros",
     "pending_mdp", "pending_ba", "pending_gp", "pending_ros"}

StockRow(c) ==
    [stock_mdp |-> c, stock_ba |-> c, stock_gp |-> c, stock_ros |-> c,
     pending_mdp |-> c, pending_ba |-> c, pending_gp |-> c, pending_ros |-> c,
     date_updated |-> 0]

StoreIds == {"04768", "28155"}

\* faulty variant: the update adds the call's delta to the stored value
UpdateRow_Increment(row, tk) ==
    [row EXCEPT ![tk.fieldName] = @ + (tk.newValue - tk.currentValue),
                !["date_updated"] = tk.updateDate]

\* faulty variant: the write sets the stock and the pending counter alike
UpdateRow_BothCounters(row, tk) ==
    [row EXCEPT !["stock_mdp"] = tk.newValue, !["pending_mdp"] = tk.newValue,
                !["stock_ba"] = tk.newValue, !["pending_ba"] = tk.newValue,
                !["date_updated"] = tk.updateDate]

\* faulty variant: the write leaves date_updated as it was
UpdateRow_NoDate(row, tk) == [row EXCEPT ![tk.fieldName] = tk.newValue]

\* Sequelize instance.update(values): UPDATE ... SET <values> WHERE article_code
\* = <the instance's key>; only the named columns are written.
UpdateRow(row, tk) ==
    [row EXCEPT ![tk.fieldName] = tk.newValue, !["date_updated"] = tk.updateDate]

----------------------------------------------------------------------------
(* The external catalog (table ARTICULOS) and the identifier mapping *)

CatalogCodes == <<"FRI44420", "FRI94226">>
CatalogIds == {"04768", "28155"}

InitialCatalog == ("FRI44420" :> "04768") @@ ("FRI94226" :> "28155")

\* SELECT CODIGOPARTICULAR, CODIGOARTICULO FROM ARTICULOS: one row per code
RECURSIVE Rows(_, _)
Rows(cat, codes) ==
    IF codes = <<>> THEN <<>>
    ELSE LET c == Head(codes) IN
         (IF c \in DOMAIN cat
          THEN <<[CODIGOPARTICULAR |-> c, CODIGOARTICULO |-> cat[c]]>>
          ELSE <<>>) \o Rows(cat, Tail(codes))

Query(cat) == Rows(cat, CatalogCodes)

\* faulty variant: the reload builds the mapping from the rows alone
ForEachAssign_Replace(map, rows) ==
    [c \in {rows[i].CODIGOPARTICULAR : i \in DOMAIN rows} |->
        rows[CHOOSE i \in DOMAIN rows : rows[i].CODIGOPARTICULAR = c].CODIGOARTICULO]

\* faulty variant: key and value are taken from the wrong columns
RECURSIVE ForEachAssign_Swapped(_, _)
ForEachAssign_Swapped(map, rows) ==
    IF rows = <<>> THEN map
    ELSE ForEachAssign_Swapped(
             (Head(rows).CODIGOARTICULO :> Head(rows).CODIGOPARTICULAR) @@ map,
             Tail(rows))

\* articles.forEach(a => map[a.CODIGOPARTICULAR] = a.CODIGOARTICULO)
RECURSIVE ForEachAssign(_, _)
ForEachAssign(map, rows) ==
    IF rows = <<>> THEN map
    ELSE ForEachAssign(
             (Head(rows).CODIGOPARTICULAR :> Head(rows).CODIGOARTICULO) @@ map,
             Tail(rows))

----------------------------------------------------------------------------
(* resolveFieldName *)

\* faulty variant: the warehouse is looked up as written
resolveFieldName_CaseSensitive(warehouse, pending) ==
    LET mapping ==
            [MDP |-> IF pending THEN "pending_mdp" ELSE "stock_mdp",
             BA  |-> IF pending THEN "pending_ba"  ELSE "stock_ba",
             GP  |-> IF pending THEN "pending_gp"  ELSE "stock_gp",
             ROS |-> IF pending THEN "pending_ros" ELSE "stock_ros"]
    IN  OrNull(Get(mapping, Str(warehouse)))

resolveFieldName(warehouse, pending) ==
    LET mapping ==
            [MDP |-> IF pending THEN "pending_mdp" ELSE "stock_mdp",
             BA  |-> IF pending THEN "pending_ba"  ELSE "stock_ba",
             GP  |-> IF pending THEN "pending_gp"  ELSE "stock_gp",
             ROS |-> IF pending THEN "pending_ros" ELSE "stock_ros"]
    IN  OrNull(Get(mapping, Str(toUpperCase(warehouse))))

----------------------------------------------------------------------------
(* Calls: payloads, locals, results *)

\* data.pending, with the default of the parameter and of `data.pending || false`
PendingArg(data) == IF "pending" \in DOMAIN data THEN data.pending ELSE FALSE

NoData == [none |-> TRUE]
NoResult == [none |-> TRUE]

IdleTask ==
    [pc |-> "idle", op |-> "none", data |-> NoData,
     articleIdentifier |-> Null, fieldName |-> Null,
     currentValue |-> 0, newValue |-> 0, updateDate |-> 0,
     rows |-> <<>>, result |-> NoResult,
     queryCalls |-> 0, findOneCalls |-> 0, updateCalls |-> 0, stale |-> FALSE,
     dirty |-> FALSE, faulted |-> FALSE,
     findAllCalls |-> 0, findAllArgs |-> <<>>, setCalls |-> <<>>,
     articleIds |-> <<>>, articleCodes |-> <<>>, errors |-> <<>>]

\* faulty variant: the error is not pushed on the list that is returned
ErrorResult_Empty(title, detail) == [errors |-> <<>>]

ErrorResult(title, detail) ==
    [errors |-> <<[title |-> title, detail |-> detail]>>]

MissingIdentifier ==
    ErrorResult("Missing article identifier",
                "Either articleId or articleCode must be provided")
ArticleCodeNotFound(code) ==
    ErrorResult("Article code not found", "Article code " \o code \o " not found")
InvalidWarehouse(warehouse) ==
    ErrorResult("Invalid warehouse", "Warehouse " \o Str(warehouse) \o " is not valid")
StockRecordNotFound(id) ==
    ErrorResult("Stock record not found",
                "Stock record for article " \o id \o " not found")

QuantityKey(op) == IF op = "reserve" THEN "reserved_quantity" ELSE "released_quantity"

\* faulty variant: the quantity reported is the change applied to the counter
SuccessResult_Applied(tk, at) ==
    [data |->
        [id |-> tk.articleIdentifier,
         type |-> "stock",
         attributes |->
             ("article_code" :> tk.articleIdentifier)
             @@ (tk.fieldName :> tk.newValue)
             @@ (QuantityKey(tk.op) :>
                     Max(tk.newValue - tk.currentValue,
                         tk.currentValue - tk.newValue))
             @@ [warehouse |-> tk.data.warehouse,
                 pending |-> PendingArg(tk.data),
                 updated_at |-> at]]]

SuccessResult(tk, at) ==
    [data |->
        [id |-> tk.articleIdentifier,
         type |-> "stock",
         attributes |->
             ("article_code" :> tk.articleIdentifier)
             @@ (tk.fieldName :> tk.newValue)
             @@ (QuantityKey(tk.op) :> tk.data.quantity)
             @@ [warehouse |-> tk.data.warehouse,
                 pending |-> PendingArg(tk.data),
                 updated_at |-> at]]]

\* faulty variant: reserve floored at zero like release
ReserveNewValue_Floored(currentValue, quantity) == Max(0, currentValue + quantity)

ReserveNewValue(currentValue, quantity) == currentValue + quantity

\* faulty variant: release without the floor
ReleaseNewValue_NoFloor(currentValue, quantity) == currentValue - quantity

ReleaseNewValue(currentValue, quantity) == Max(0, currentValue - quantity)

NewValue(op, currentValue, quantity) ==
    IF op = "reserve" THEN ReserveNewValue(currentValue, quantity)
    ELSE ReleaseNewValue(currentValue, quantity)

----------------------------------------------------------------------------
(* The synchronous stretches of the handlers, as functions of the call's   *)
(* record tk                                                               *)

\* faulty variant: the warehouse is checked after the store has been read
AfterIdentifier_LateCheck(tk, id) ==
    [tk EXCEPT !.articleIdentifier = id,
               !.fieldName = resolveFieldName(tk.data.warehouse, PendingArg(tk.data)),
               !.pc = "findOne", !.findOneCalls = @ + 1]

\* resolveFieldName, its check, and the call of findOne
AfterIdentifier(tk, id) ==
    LET f == resolveFieldName(tk.data.warehouse, PendingArg(tk.data)) IN
    IF ~Truthy(f)
    THEN [tk EXCEPT !.articleIdentifier = id, !.pc = "done",
                    !.result = InvalidWarehouse(tk.data.warehouse)]
    ELSE [tk EXCEPT !.articleIdentifier = id, !.fieldName = f,
                    !.pc = "findOne", !.findOneCalls = @ + 1]

\* faulty variant: an unresolved code falls back on the payload's articleId
AfterGetArticleId_FallThrough(tk, id) ==
    IF tk.op = "getArticleId"
    THEN [tk EXCEPT !.pc = "done", !.result = [value |-> id]]
    ELSE IF Truthy(id) THEN AfterIdentifier(tk, id)
    ELSE IF Truthy(Get(tk.data, "articleId"))
    THEN AfterIdentifier(tk, tk.data.articleId)
    ELSE [tk EXCEPT !.pc = "done",
                    !.result = ArticleCodeNotFound(tk.data.articleCode)]

\* what follows `articleIdentifier = await this.getArticleId(data.articleCode)`
AfterGetArticleId(tk, id) ==
    IF tk.op = "getArticleId"
    THEN [tk EXCEPT !.pc = "done", !.result = [value |-> id]]
    ELSE IF ~Truthy(id)
    THEN [tk EXCEPT !.pc = "done",
                    !.result = ArticleCodeNotFound(tk.data.articleCode)]
    ELSE AfterIdentifier(tk, id)

\* getArticleId up to its await: a miss calls loadArticleMappings, whose
\* query is sent now
GetArticleIdEntry(tk, map, cat) ==
    IF ~Truthy(Get(map, tk.data.articleCode))
    THEN [tk EXCEPT !.pc = "query", !.rows = Query(cat), !.queryCalls = @ + 1]
    ELSE AfterGetArticleId(tk, OrNull(Get(map, tk.data.articleCode)))

\* handleReserveStock / handleReleaseStock up to their first await
\* faulty variant: a supplied articleId is taken before the articleCode
HandlerEntry_IdFirst(tk, map, cat) ==
    IF Truthy(Get(tk.data, "articleId"))
    THEN AfterIdentifier(tk, tk.data.articleId)
    ELSE IF Truthy(Get(tk.data, "articleCode"))
    THEN GetArticleIdEntry(tk, map, cat)
    ELSE [tk EXCEPT !.pc = "done", !.result = MissingIdentifier]

HandlerEntry(tk, map, cat) ==
    IF Truthy(Get(tk.data, "articleCode"))
    THEN GetArticleIdEntry(tk, map, cat)
    ELSE IF Truthy(Get(tk.data, "articleId"))
    THEN AfterIdentifier(tk, tk.data.articleId)
    ELSE [tk EXCEPT !.pc = "done", !.result = MissingIdentifier]

\* faulty variant: a missing row is taken as a row of zeros
AfterFindOne_NoCheck(tk, store, clock) ==
    LET currentValue ==
            IF tk.articleIdentifier \in DOMAIN store
            THEN OrZero(store[tk.articleIdentifier][tk.fieldName]) ELSE 0 IN
    [tk EXCEPT !.currentValue = currentValue,
               !.newValue = NewValue(tk.op, currentValue, tk.data.quantity),
               !.updateDate = clock,
               !.pc = "update"]

\* the continuation of findOne: a missing row, or the new value and the
\* call of update
AfterFindOne(tk, store, clock) ==
    IF tk.articleIdentifier \notin DOMAIN store
    THEN [tk EXCEPT !.pc = "done",
                    !.result = StockRecordNotFound(tk.articleIdentifier)]
    ELSE LET currentValue == OrZero(store[tk.articleIdentifier][tk.fieldName]) IN
         [tk EXCEPT !.currentValue = currentValue,
                    !.newValue = NewValue(tk.op, currentValue, tk.data.quantity),
                    !.updateDate = clock,
                    !.pc = "update"]

----------------------------------------------------------------------------
(* Payloads the callers send *)

\* an optional property: left out, or present with one of the values
Opt(key, values) == {<<>>} \cup {key :> v : v \in values}

Payloads(ids, codes, pendings, warehouses, quantities) ==
    {a @@ c @@ p @@ [quantity |-> q, warehouse |-> w] :
        a \in ids, c \in codes, p \in pendings,
        w \in warehouses, q \in quantities}

Quantities == {-5, 0, 5, 10}
SeedCounts == {0, 4}

\* concurrent calls on one counter of one article
RacePayloads ==
    Payloads({"articleId" :> "04768"}, {<<>>}, {"pending" :> TRUE},
             {<<"B", "A">>}, Quantities)

\* one caller, every shape of payload
ValidatePayloads ==
    Payloads(Opt("articleId", {"04768", "99999"}),
             Opt("articleCode", {"FRI94226", "UNKNOWN_CODE"}),
             Opt("pending", {TRUE}),
             {<<"b", "a">>, <<"X", "X">>}, {5, 10})

----------------------------------------------------------------------------
(* Actions *)

Call(t, op, data) ==
    /\ task[t].pc = "idle"
    /\ calls < MaxCalls
    /\ calls' = calls + 1
    /\ LET tk == [IdleTask EXCEPT !.op = op, !.data = data] IN
       task' = [task EXCEPT ![t] =
                    IF op = "getArticleId"
                    THEN GetArticleIdEntry(tk, articleCodeMap, catalog)
                    ELSE HandlerEntry(tk, articleCodeMap, catalog)]
    /\ UNCHANGED <<ledger, articleCodeMap, catalog, now, cache, ttl>>

Reserve(t, data) == Call(t, "reserve", data)

Release(t, data) == Call(t, "release", data)

GetArticleId(t, code) == Call(t, "getArticleId", [articleCode |-> code])

\* the catalog answers: loadArticleMappings fills the map, getArticleId
\* returns, the handler goes on
QueryReturn(t) ==
    /\ task[t].pc = "query"
    /\ LET map == ForEachAssign(articleCodeMap, task[t].rows) IN
       /\ articleCodeMap' = map
       /\ task' = [task EXCEPT ![t] =
                      AfterGetArticleId(@, OrNull(Get(map, @.data.articleCode)))]
    /\ UNCHANGED <<ledger, catalog, now, calls, cache, ttl>>

\* the store answers findOne
FindOneReturn(t) ==
    /\ task[t].pc = "findOne"
    /\ task' = [task EXCEPT ![t] = AfterFindOne(@, ledger, now)]
    /\ UNCHANGED <<ledger, articleCodeMap, catalog, now, calls, cache, ttl>>

\* faulty variant: the write also drops the aggregate cache entry
UpdateReturn_Invalidate(t) ==
    /\ task[t].pc = "update"
    /\ ledger' = [ledger EXCEPT ![task[t].articleIdentifier] =
                      UpdateRow(@, task[t])]
    /\ task' = [task EXCEPT ![t] =
                   [@ EXCEPT !.pc = "done", !.updateCalls = @ + 1,
                             !.result = SuccessResult(task[t], now)]]
    /\ cache' = <<>>
    /\ UNCHANGED <<articleCodeMap, catalog, now, calls, ttl>>

\* the store applies the update and answers; the handler returns its result.
\* A call that has read the same counter and not yet written it now holds a
\* value that is no longer the store's (stale: history only).
UpdateReturn(t) ==
    /\ task[t].pc = "update"
    /\ ledger' = [ledger EXCEPT ![task[t].articleIdentifier] =
                      UpdateRow(@, task[t])]
    /\ task' = [u \in Tasks |->
                  IF u = t
                  THEN [task[t] EXCEPT !.pc = "done", !.updateCalls = @ + 1,
                                       !.result = SuccessResult(task[t], now)]
                  ELSE IF /\ task[u].pc = "update"
                          /\ task[u].articleIdentifier = task[t].articleIdentifier
                          /\ task[u].fieldName = task[t].fieldName
                  THEN [task[u] EXCEPT !.stale = TRUE]
                  ELSE task[u]]
    /\ UNCHANGED <<articleCodeMap, catalog, now, calls, cache, ttl>>

\* the caller has its answer; the slot takes the next call
Finish(t) ==
    /\ task[t].pc \in {"done", "failed"}
    /\ task' = [task EXCEPT ![t] = IdleTask]
    /\ UNCHANGED <<ledger, articleCodeMap, catalog, now, calls, cache, ttl>>

\* history: the calls in progress or returned have seen the catalog change
CatalogChanged ==
    [t \in Tasks |->
        IF task[t].pc = "idle" THEN task[t]
        ELSE [task[t] EXCEPT !.dirty = TRUE]]

\* the catalog is maintained by others: a code gets an identifier, or goes
CatalogSet(code, id) ==
    /\ Get(catalog, code) # id
    /\ catalog' = (code :> id) @@ catalog
    /\ task' = CatalogChanged
    /\ UNCHANGED <<ledger, articleCodeMap, now, calls, cache, ttl>>

CatalogDelete(code) ==
    /\ code \in DOMAIN catalog
    /\ catalog' = [c \in DOMAIN catalog \ {code} |-> catalog[c]]
    /\ task' = CatalogChanged
    /\ UNCHANGED <<ledger, articleCodeMap, now, calls, cache, ttl>>

----------------------------------------------------------------------------
(* getAllStock and the aggregate cache *)

\* the rows of the table in primary key order
StoreOrder == <<"04768", "28155">>

\* record.toJSON(): the plain object of a row, its key column included
toJSON(id, row) == [article_code |-> id] @@ row

RECURSIVE SelectWhere(_, _, _)
SelectWhere(store, ids, i) ==
    IF i > Len(StoreOrder) THEN <<>>
    ELSE (IF StoreOrder[i] \in ids
          THEN <<toJSON(StoreOrder[i], store[StoreOrder[i]])>>
          ELSE <<>>) \o SelectWhere(store, ids, i + 1)

\* stockModel.findAll() and the map to plain objects that follows it
FindAll(store) == SelectWhere(store, DOMAIN store, 1)

\* faulty variant: a time-to-live of 0 is a limit like any other
Expired_AtZero(entry, clock) == clock - entry.start > entry.ttl

\* an entry of the memory store is stale once its age exceeds its
\* time-to-live; a time-to-live of 0 sets no limit
Expired(entry, clock) == entry.ttl # 0 /\ clock - entry.start > entry.ttl

\* faulty variant: no entry is ever found
CacheHit_Never(store, key, clock) == key \in DOMAIN store /\ clock < 0

\* cacheManager.get(key) finds an entry
CacheHit(store, key, clock) ==
    key \in DOMAIN store /\ ~Expired(store[key], clock)

\* the store after cacheManager.get(key): a stale entry is dropped
CacheAfterGet(store, key, clock) ==
    IF key \in DOMAIN store /\ Expired(store[key], clock)
    THEN [k \in DOMAIN store \ {key} |-> store[k]]
    ELSE store

\* faulty variant: the entry is stored without the snapshot
CacheSet_Empty(store, key, value, life, clock) ==
    (key :> [value |-> <<>>, start |-> clock, ttl |-> life]) @@ store

\* faulty variant: an entry that is there is not overwritten
CacheSet_KeepFirst(store, key, value, life, clock) ==
    IF key \in DOMAIN store THEN store
    ELSE (key :> [value |-> value, start |-> clock, ttl |-> life]) @@ store

\* cacheManager.set(key, value, ttl)
CacheSet(store, key, value, life, clock) ==
    (key :> [value |-> value, start |-> clock, ttl |-> life]) @@ store

\* getAllStock up to its first wait on the store: `if (cached) return cached`,
\* else findAll is sent
GetAllEntry(tk, store, clock) ==
    IF CacheHit(store, "allStock", clock)
    THEN [tk EXCEPT !.pc = "done",
                    !.result = [value |-> store["allStock"].value]]
    ELSE [tk EXCEPT !.pc = "findAll", !.findAllCalls = @ + 1]

GetAllStock(t) ==
    /\ task[t].pc = "idle"
    /\ calls < MaxCalls
    /\ calls' = calls + 1
    /\ task' = [task EXCEPT ![t] =
                   GetAllEntry([IdleTask EXCEPT !.op = "getAllStock"],
                               cache, now)]
    /\ cache' = CacheAfterGet(cache, "allStock", now)
    /\ UNCHANGED <<ledger, articleCodeMap, catalog, now, ttl>>

\* the store answers the scan: the snapshots are cached and returned
FindAllReturn(t) ==
    /\ task[t].pc = "findAll"
    /\ task[t].op = "getAllStock"
    /\ LET plainStocks == FindAll(ledger) IN
       /\ cache' = CacheSet(cache, "allStock", plainStocks, ttl, now)
       /\ task' = [task EXCEPT ![t] =
                      [@ EXCEPT !.pc = "done",
                                !.setCalls = Append(@, <<"allStock", plainStocks, ttl>>),
                                !.result = [value |-> plainStocks]]]
    /\ UNCHANGED <<ledger, articleCodeMap, catalog, now, calls, ttl>>

----------------------------------------------------------------------------
(* getStockByArticle *)

\* the error pushed for a code that getArticleId answers with null
CodeError(code) ==
    [title |-> "Article code not found",
     detail |-> "Article code " \o code \o " not found"]

\* faulty variant: the errors are dropped from the result
ByArticleResult_NoErrors(records, errors) == [data |-> records]

\* the object returned; `errors: undefined` is a key the response lacks
ByArticleResult(records, errors) ==
    IF Len(errors) > 0
    THEN [data |-> records, errors |-> errors]
    ELSE [data |-> records]

\* the top of `for (const code of articleCodes)`: getArticleId(code) is
\* called, and answers from the map or after a catalog query; after the last
\* code, findAll is sent if there is an identifier, else the call returns
ByArticleTop(tk, map, cat) ==
    IF tk.articleCodes # <<>>
    THEN LET code == Head(tk.articleCodes) IN
         IF ~Truthy(Get(map, code))
         THEN [tk EXCEPT !.pc = "codeQuery", !.rows = Query(cat),
                         !.queryCalls = @ + 1]
         ELSE [tk EXCEPT !.pc = "codeResolved",
                         !.articleIdentifier = OrNull(Get(map, code))]
    ELSE IF Len(tk.articleIds) > 0
    THEN [tk EXCEPT !.pc = "findAll", !.findAllCalls = @ + 1,
                    !.findAllArgs = Append(@, tk.articleIds)]
    ELSE [tk EXCEPT !.pc = "done",
                    !.result = ByArticleResult(<<>>, tk.errors)]

\* faulty variant: the resolved identifier goes in front of the list
AfterCode_Prepend(tk, id) ==
    IF Truthy(id)
    THEN [tk EXCEPT !.articleIds = <<id>> \o @, !.articleCodes = Tail(@)]
    ELSE [tk EXCEPT !.errors = Append(@, CodeError(Head(tk.articleCodes))),
                    !.articleCodes = Tail(@)]

\* the body of the loop after getArticleId(code) has answered
AfterCode(tk, id) ==
    IF Truthy(id)
    THEN [tk EXCEPT !.articleIds = Append(@, id), !.articleCodes = Tail(@)]
    ELSE [tk EXCEPT !.errors = Append(@, CodeError(Head(tk.articleCodes))),
                    !.articleCodes = Tail(@)]

GetStockByArticle(t, articleIdParam, articleCodeParam) ==
    /\ task[t].pc = "idle"
    /\ calls < MaxCalls
    /\ calls' = calls + 1
    /\ LET tk == [IdleTask EXCEPT
                     !.op = "getStockByArticle",
                     !.data = [articleId |-> articleIdParam,
                               articleCode |-> articleCodeParam],
                     !.articleIds = articleIdParam,
                     !.articleCodes = articleCodeParam]
       IN task' = [task EXCEPT ![t] = ByArticleTop(tk, articleCodeMap, catalog)]
    /\ UNCHANGED <<ledger, articleCodeMap, catalog, now, cache, ttl>>

\* getArticleId has answered from the map: the loop goes on
CodeResolved(t) ==
    /\ task[t].pc = "codeResolved"
    /\ task' = [task EXCEPT ![t] =
                   ByArticleTop(AfterCode(@, @.articleIdentifier),
                                articleCodeMap, catalog)]
    /\ UNCHANGED <<ledger, articleCodeMap, catalog, now, calls, cache, ttl>>

\* the catalog answers: loadArticleMappings fills the map, getArticleId
\* returns, the loop goes on
CodeQueryReturn(t) ==
    /\ task[t].pc = "codeQuery"
    /\ LET map == ForEachAssign(articleCodeMap, task[t].rows) IN
       /\ articleCodeMap' = map
       /\ task' = [task EXCEPT ![t] =
                      ByArticleTop(
                          AfterCode(@, OrNull(Get(map, Head(@.articleCodes)))),
                          map, catalog)]
    /\ UNCHANGED <<ledger, catalog, now, calls, cache, ttl>>

\* the store answers findAll({ where: { article_code: articleIds } })
FindAllWhereReturn(t) ==
    /\ task[t].pc = "findAll"
    /\ task[t].op = "getStockByArticle"
    /\ LET ids == {task[t].articleIds[i] : i \in 1..Len(task[t].articleIds)}
           stockRecords == SelectWhere(ledger, ids, 1)
       IN task' = [task EXCEPT ![t] =
                      [@ EXCEPT !.pc = "done",
                                !.result = ByArticleResult(stockRecords,
                                                          task[t].errors)]]
    /\ UNCHANGED <<ledger, articleCodeMap, catalog, now, calls, cache, ttl>>

----------------------------------------------------------------------------
(* Collaborator faults *)

\* the positions at which a call waits for the catalog, and for the store
CatalogWaits == {"query", "codeQuery"}
StoreWaits == {"findOne", "update", "findAll"}

\* faulty variant: the fault is caught and reported as an errors result
Rejected_Reported(tk) ==
    [tk EXCEPT !.pc = "done", !.result = ErrorResult("Internal error", tk.pc)]

\* the awaited promise rejects and nothing on the way catches it: the call
\* itself rejects, at the position it was waiting at
Rejected(tk) == [tk EXCEPT !.pc = "failed", !.result = [fault |-> tk.pc]]

\* FirebirdDatabaseService.query rejects: loadArticleMappings throws before
\* its forEach
CatalogFault(t) ==
    /\ task[t].pc \in CatalogWaits
    /\ task' = [task EXCEPT ![t] = [Rejected(@) EXCEPT !.faulted = TRUE]]
    /\ UNCHANGED <<ledger, articleCodeMap, catalog, now, calls, cache, ttl>>

\* findOne, update or findAll rejects; a rejected update has written nothing
StoreFault(t) ==
    /\ task[t].pc \in StoreWaits
    /\ task' = [task EXCEPT ![t] = [Rejected(@) EXCEPT !.faulted = TRUE]]
    /\ UNCHANGED <<ledger, articleCodeMap, catalog, now, calls, cache, ttl>>

----------------------------------------------------------------------------

Tick ==
    /\ now < MaxClock
    /\ now' = now + 1
    /\ UNCHANGED <<ledger, articleCodeMap, catalog, calls, task, cache, ttl>>

----------------------------------------------------------------------------
(* Specifications *)

Init ==
    /\ ledger \in [StoreIds -> {StockRow(c) : c \in SeedCounts}]
    /\ articleCodeMap = <<>>
    /\ catalog = InitialCatalog
    /\ now = 0
    /\ calls = 0
    /\ task = [t \in Tasks |-> IdleTask]
    /\ cache = <<>>
    /\ ttl = 0

\* concurrent reserve and release calls
Next ==
    \/ \E t \in Tasks : \E d \in RacePayloads : Reserve(t, d)
    \/ \E t \in Tasks : \E d \in RacePayloads : Release(t, d)
    \/ \E t \in Tasks : FindOneReturn(t)
    \/ \E t \in Tasks : UpdateReturn(t)
    \/ \E t \in Tasks : Finish(t)

Spec == Init /\ [][Next]_vars

\* the same calls under a clock that advances
NextClock == Next \/ Tick

SpecClock == Init /\ [][NextClock]_vars

\* one caller at a time, every shape of payload, a catalog that changes
InitValidate ==
    /\ ledger = [i \in StoreIds |-> StockRow(4)]
    /\ articleCodeMap = <<>>
    /\ catalog = InitialCatalog
    /\ now = 0
    /\ calls = 0
    /\ task = [t \in Tasks |-> IdleTask]
    /\ cache = <<>>
    /\ ttl = 0

NextValidate ==
    \/ \E d \in ValidatePayloads : Reserve(1, d)
    \/ \E d \in ValidatePayloads : Release(1, d)
    \/ QueryReturn(1)
    \/ FindOneReturn(1)
    \/ UpdateReturn(1)
    \/ Finish(1)
    \/ CatalogSet("FRI94226", "99999")
    \/ CatalogDelete("FRI94226")

SpecValidate == InitValidate /\ [][NextValidate]_vars

\* one caller, every spelling of the warehouse
WarehouseCodes == {<<"M", "D", "P">>, <<"B", "A">>, <<"G", "P">>, <<"R", "O", "S">>}

LowerChar(c) ==
    IF \E i \in DOMAIN UpperLetters : UpperLetters[i] = c
    THEN LowerLetters[CHOOSE i \in DOMAIN UpperLetters : UpperLetters[i] = c]
    ELSE c

toLowerCase(s) == [i \in DOMAIN s |-> LowerChar(s[i])]

RECURSIVE Spellings(_)
Spellings(code) ==
    IF code = <<>> THEN {<<>>}
    ELSE {<<h>> \o r : h \in {Head(code), LowerChar(Head(code))},
                       r \in Spellings(Tail(code))}

OtherWarehouses ==
    {<<>>, <<"X", "X">>, <<"M", "D">>, <<"M", "D", "P", "X">>, <<"B", "A", " ">>,
     <<"R", "0", "S">>, <<"s", "t", "o", "c", "k", "_", "b", "a">>}

FieldPayloads ==
    Payloads({"articleId" :> "04768"}, {<<>>}, Opt("pending", {TRUE, FALSE}),
             UNION {Spellings(w) : w \in WarehouseCodes} \cup OtherWarehouses, {5})

NextField ==
    \/ \E d \in FieldPayloads : Reserve(1, d)
    \/ \E d \in FieldPayloads : Release(1, d)
    \/ FindOneReturn(1)
    \/ UpdateReturn(1)
    \/ Finish(1)

SpecField == InitValidate /\ [][NextField]_vars

\* concurrent resolutions of codes against a catalog that changes
ResolveCodes == {"FRI44420", "FRI94226", "UNKNOWN_CODE"}

NextResolver ==
    \/ \E t \in Tasks : \E c \in ResolveCodes : GetArticleId(t, c)
    \/ \E t \in Tasks : QueryReturn(t)
    \/ \E t \in Tasks : Finish(t)
    \/ \E i \in 1..Len(CatalogCodes) : \E id \in CatalogIds :
           CatalogSet(CatalogCodes[i], id)
    \/ \E i \in 1..Len(CatalogCodes) : CatalogDelete(CatalogCodes[i])

SpecResolver == InitValidate /\ [][NextResolver]_vars

\* calls that write and calls that end in an error, under a clock that
\* advances
DatePayloads ==
    {[articleId |-> "04768", quantity |-> 5, warehouse |-> <<"B", "A">>],
     [articleId |-> "04768", quantity |-> 5, warehouse |-> <<"X", "X">>],
     [articleId |-> "99999", quantity |-> 5, warehouse |-> <<"B", "A">>]}

NextDates ==
    \/ \E t \in Tasks : \E d \in DatePayloads : Reserve(t, d)
    \/ \E t \in Tasks : \E d \in DatePayloads : Release(t, d)
    \/ \E t \in Tasks : FindOneReturn(t)
    \/ \E t \in Tasks : UpdateReturn(t)
    \/ \E t \in Tasks : Finish(t)
    \/ Tick

SpecDates == InitValidate /\ [][NextDates]_vars

\* concurrent getArticleId calls while one code of the catalog is given
\* another identifier, or goes
NextReloads ==
    \/ \E t \in Tasks : \E c \in ResolveCodes : GetArticleId(t, c)
    \/ \E t \in Tasks : QueryReturn(t)
    \/ \E t \in Tasks : Finish(t)
    \/ CatalogSet("FRI94226", "99999")
    \/ CatalogSet("FRI94226", "28155")
    \/ CatalogDelete("FRI94226")

SpecReloads == InitValidate /\ [][NextReloads]_vars

\* concurrent calls whose payloads fail at one step of the validation, at
\* two, or at none
OrderPayloads ==
    {[articleCode |-> "UNKNOWN_CODE", quantity |-> 5, warehouse |-> <<"X", "X">>],
     [articleCode |-> "UNKNOWN_CODE", articleId |-> "04768", quantity |-> 5,
      warehouse |-> <<"B", "A">>],
     [articleId |-> "99999", quantity |-> 5, warehouse |-> <<"X", "X">>],
     [articleId |-> "99999", quantity |-> 5, warehouse |-> <<"B", "A">>],
     [articleCode |-> "FRI44420", quantity |-> 5, warehouse |-> <<"b", "a">>],
     [quantity |-> 5, warehouse |-> <<"X", "X">>]}

NextOrder ==
    \/ \E t \in Tasks : \E d \in OrderPayloads : Reserve(t, d)
    \/ \E t \in Tasks : \E d \in OrderPayloads : Release(t, d)
    \/ \E t \in Tasks : QueryReturn(t)
    \/ \E t \in Tasks : FindOneReturn(t)
    \/ \E t \in Tasks : UpdateReturn(t)
    \/ \E t \in Tasks : Finish(t)

SpecOrder == InitValidate /\ [][NextOrder]_vars

\* a reserve and a release of the same quantity on one counter, from
\* counters below, between and above the quantities
RoundTripSeeds == {0, 4, 10}

RoundTripPayloads ==
    {[articleId |-> "04768", quantity |-> q, warehouse |-> <<"G", "P">>] :
        q \in {5, 10}}

InitRoundTrip ==
    /\ ledger \in {[i \in StoreIds |-> StockRow(c)] : c \in RoundTripSeeds}
    /\ articleCodeMap = <<>>
    /\ catalog = InitialCatalog
    /\ now = 0
    /\ calls = 0
    /\ task = [t \in Tasks |-> IdleTask]
    /\ cache = <<>>
    /\ ttl = 0

NextRoundTrip ==
    \/ \E t \in Tasks : \E d \in RoundTripPayloads : Reserve(t, d)
    \/ \E t \in Tasks : \E d \in RoundTripPayloads : Release(t, d)
    \/ \E t \in Tasks : FindOneReturn(t)
    \/ \E t \in Tasks : UpdateReturn(t)
    \/ \E t \in Tasks : Finish(t)

SpecRoundTrip == InitRoundTrip /\ [][NextRoundTrip]_vars

\* the four operations when the catalog or the store may fail
FaultPayloads ==
    {[articleCode |-> "FRI44420", quantity |-> 5, warehouse |-> <<"B", "A">>],
     [articleCode |-> "FRI44420", quantity |-> 5, warehouse |-> <<"m", "d", "p">>,
      pending |-> TRUE]}

NextFaults ==
    \/ \E t \in Tasks : \E d \in FaultPayloads : Reserve(t, d)
    \/ \E t \in Tasks : \E d \in FaultPayloads : Release(t, d)
    \/ \E t \in Tasks : GetStockByArticle(t, <<"28155">>, <<"FRI44420">>)
    \/ \E t \in Tasks : GetAllStock(t)
    \/ \E t \in Tasks : QueryReturn(t)
    \/ \E t \in Tasks : FindOneReturn(t)
    \/ \E t \in Tasks : UpdateReturn(t)
    \/ \E t \in Tasks : CodeResolved(t)
    \/ \E t \in Tasks : CodeQueryReturn(t)
    \/ \E t \in Tasks : FindAllWhereReturn(t)
    \/ \E t \in Tasks : FindAllReturn(t)
    \/ \E t \in Tasks : CatalogFault(t)
    \/ \E t \in Tasks : StoreFault(t)
    \/ \E t \in Tasks : Finish(t)

SpecFaults == InitValidate /\ [][NextFaults]_vars

\* getAllStock calls while the counters change and the clock advances, under
\* each configured time-to-live
Ttls == {0, 1}

CachePayloads ==
    {[articleId |-> "04768", quantity |-> 5, warehouse |-> <<"B", "A">>]}

InitCache ==
    /\ ledger = [i \in StoreIds |-> StockRow(4)]
    /\ articleCodeMap = <<>>
    /\ catalog = InitialCatalog
    /\ now = 0
    /\ calls = 0
    /\ task = [t \in Tasks |-> IdleTask]
    /\ cache = <<>>
    /\ ttl \in Ttls

NextCache ==
    \/ \E t \in Tasks : GetAllStock(t)
    \/ \E t \in Tasks : FindAllReturn(t)
    \/ \E t \in Tasks : \E d \in CachePayloads : Reserve(t, d)
    \/ \E t \in Tasks : \E d \in CachePayloads : Release(t, d)
    \/ \E t \in Tasks : FindOneReturn(t)
    \/ \E t \in Tasks : UpdateReturn(t)
    \/ \E t \in Tasks : Finish(t)
    \/ Tick

SpecCache == InitCache /\ [][NextCache]_vars

\* getStockByArticle calls, with the lists the controller makes of its query
\* parameters, against a full catalog and against catalogs that lack a code
IdLists == {<<>>, <<"28155">>, <<"04768">>, <<"99999">>}

CodeLists ==
    {<<>>, <<"UNKNOWN_CODE">>, <<"FRI44420">>,
     <<"UNKNOWN_CODE", "FRI44420">>, <<"FRI94226", "FRI44420">>,
     <<"FRI44420", "UNKNOWN_CODE", "FRI94226">>}

Catalogs ==
    {InitialCatalog, ("FRI44420" :> "04768"), ("FRI94226" :> "28155")}

InitByArticle ==
    /\ ledger = [i \in StoreIds |-> StockRow(IF i = "04768" THEN 4 ELSE 0)]
    /\ articleCodeMap = <<>>
    /\ catalog \in Catalogs
    /\ now = 0
    /\ calls = 0
    /\ task = [t \in Tasks |-> IdleTask]
    /\ cache = <<>>
    /\ ttl = 0

NextByArticle ==
    \/ \E t \in Tasks : \E ids \in IdLists : \E codes \in CodeLists :
           GetStockByArticle(t, ids, codes)
    \/ \E t \in Tasks : CodeResolved(t)
    \/ \E t \in Tasks : CodeQueryReturn(t)
    \/ \E t \in Tasks : FindAllWhereReturn(t)
    \/ \E t \in Tasks : Finish(t)

SpecByArticle == InitByArticle /\ [][NextByArticle]_vars

----------------------------------------------------------------------------
(* Claims *)

Handlers == {"reserve", "release"}

\* the step in which call t's update reaches the store and the call returns
Writes(t) == task[t].pc = "update" /\ task'[t].pc = "done"

\* the value the result of a successful call reports for the field it updated
Reported(tk) == tk.result.data.attributes[tk.fieldName]

\* C1: every counter of every stock row is a non-negative integer in every
\* reachable state, whatever reserve and release calls have run.
C1_CountersNonNegative ==
    \A id \in DOMAIN ledger : \A f \in Counters :
        ledger[id][f] \in Nat

\* C2: a release that writes a counter no other call has written since the
\* release read it, the counter being c >= 0 and the quantity q >= 0, stores
\* and reports c - q when that is not negative, and 0 otherwise.
C2_ReleaseFloorsAtZero ==
    [][\A t \in Tasks :
          (Writes(t) /\ task[t].op = "release" /\ ~task[t].stale) =>
              LET id == task[t].articleIdentifier
                  f == task[t].fieldName
                  c == ledger[id][f]
                  q == task[t].data.quantity
                  floored == IF c >= q THEN c - q ELSE 0
              IN  (c >= 0 /\ q >= 0) =>
                      /\ ledger'[id][f] = floored
                      /\ Reported(task'[t]) = floored
                      /\ ledger'[id][f] >= 0]_vars

C2_Witness ==
    \E t \in Tasks :
        /\ task[t].pc = "done" /\ task[t].op = "release" /\ ~task[t].stale
        /\ "data" \in DOMAIN task[t].result
        /\ task[t].currentValue = 4 /\ task[t].data.quantity = 10
        /\ Reported(task[t]) = 0
        /\ ledger[task[t].articleIdentifier][task[t].fieldName] = 0

\* C3: a reserve that writes a counter no other call has written since the
\* reserve read it stores and reports exactly c + q, c being the counter and
\* q the quantity, with no floor and no ceiling.
C3_ReserveAdds ==
    [][\A t \in Tasks :
          (Writes(t) /\ task[t].op = "reserve" /\ ~task[t].stale) =>
              LET id == task[t].articleIdentifier
                  f == task[t].fieldName
                  c == ledger[id][f]
                  q == task[t].data.quantity
              IN  /\ ledger'[id][f] = c + q
                  /\ Reported(task'[t]) = c + q]_vars

C3_Witness ==
    \E t \in Tasks :
        /\ task[t].pc = "done" /\ task[t].op = "reserve" /\ ~task[t].stale
        /\ "data" \in DOMAIN task[t].result
        /\ task[t].currentValue = 4 /\ task[t].data.quantity = 5
        /\ Reported(task[t]) = 9
        /\ ledger[task[t].articleIdentifier][task[t].fieldName] = 9

\* C4: the update is applied without any check of the value read: a call
\* whose counter another call has written since it read it (both read the
\* same c) still writes, and the counter becomes the value computed from the
\* stale c (c + q for a reserve, the floored c - q for a release), so the
\* other call's update is lost.
C4_StaleWriteOverwrites ==
    [][\A t \in Tasks :
          (Writes(t) /\ task[t].stale) =>
              LET id == task[t].articleIdentifier
                  f == task[t].fieldName
                  c == task[t].currentValue
                  q == task[t].data.quantity
              IN  ledger'[id][f] =
                      IF task[t].op = "reserve" THEN c + q
                      ELSE IF c >= q THEN c - q ELSE 0]_vars

\* two reserves of q1 > 0 and q2 > 0 that both read c: the counter is left at
\* c + q2, not c + q1 + q2
C4_Witness ==
    \E t, u \in Tasks :
        /\ t # u
        /\ task[t].pc = "done" /\ task[u].pc = "done"
        /\ task[t].op = "reserve" /\ task[u].op = "reserve"
        /\ "data" \in DOMAIN task[t].result /\ "data" \in DOMAIN task[u].result
        /\ task[t].articleIdentifier = task[u].articleIdentifier
        /\ task[t].fieldName = task[u].fieldName
        /\ task[t].currentValue = task[u].currentValue
        /\ ~task[t].stale /\ task[u].stale
        /\ task[t].data.quantity > 0 /\ task[u].data.quantity > 0
        /\ ledger[task[u].articleIdentifier][task[u].fieldName]
               = task[u].currentValue + task[u].data.quantity
        /\ ledger[task[u].articleIdentifier][task[u].fieldName]
               # task[u].currentValue + task[t].data.quantity + task[u].data.quantity

\* the warehouse is one of MDP, BA, GP, ROS in some letter case
ValidWarehouse(w) == Str(toLowerCase(w)) \in {"mdp", "ba", "gp", "ros"}

Titles(tk) ==
    IF "errors" \in DOMAIN tk.result
    THEN [i \in DOMAIN tk.result.errors |-> tk.result.errors[i].title]
    ELSE <<>>

Returned(t) == task[t].pc = "done" /\ task[t].op \in Handlers

NoIdentifier(data) ==
    ~Truthy(Get(data, "articleCode")) /\ ~Truthy(Get(data, "articleId"))

\* the identifier a returned call worked on, from its payload and the mapping
\* (which has not changed since the call resolved its code: one caller)
Operative(data) ==
    IF Truthy(Get(data, "articleCode"))
    THEN OrNull(Get(articleCodeMap, data.articleCode))
    ELSE OrNull(Get(data, "articleId"))

\* C5 as stated: every reserve or release call whose warehouse is not MDP,
\* BA, GP or ROS (in any letter case) returns the one error 'Invalid
\* warehouse' and has written nothing to the store.
C5_InvalidWarehouseAlways ==
    \A t \in Tasks :
        (Returned(t) /\ ~ValidWarehouse(task[t].data.warehouse)) =>
            /\ Titles(task[t]) = <<"Invalid warehouse">>
            /\ task[t].updateCalls = 0

\* C5 amended: a call whose warehouse is not MDP, BA, GP or ROS (in any
\* letter case) never reads or writes the store, and returns the one error
\* 'Invalid warehouse' when its identifier was resolved; when it was not, the
\* call returns the error of the identifier step instead.
C5_InvalidWarehouseAfterIdentifier ==
    \A t \in Tasks :
        (task[t].op \in Handlers /\ ~ValidWarehouse(task[t].data.warehouse)) =>
            /\ task[t].updateCalls = 0
            /\ task[t].findOneCalls = 0
            /\ task[t].pc \notin {"findOne", "update"}
            /\ (Returned(t) /\ Truthy(Operative(task[t].data))) =>
                   /\ Titles(task[t]) = <<"Invalid warehouse">>
                   /\ "data" \notin DOMAIN task[t].result
            /\ (Returned(t) /\ ~Truthy(Operative(task[t].data))) =>
                   Titles(task[t]) \in {<<"Missing article identifier">>,
                                        <<"Article code not found">>}

C5_Witness ==
    \E t \in Tasks :
        /\ Returned(t)
        /\ task[t].data.warehouse = <<"X", "X">>
        /\ Truthy(Operative(task[t].data))
        /\ Titles(task[t]) = <<"Invalid warehouse">>
        /\ ledger = [i \in StoreIds |-> StockRow(4)]

\* C6: a returned call with neither articleId nor articleCode carries the one
\* error 'Missing article identifier'; a returned call whose articleCode is
\* not in the mapping (after the reload its miss caused) carries the one
\* error 'Article code not found', also when the payload has an articleId;
\* neither has read or written the store.
C6_IdentifierErrors ==
    \A t \in Tasks :
        Returned(t) =>
            /\ NoIdentifier(task[t].data) =>
                   /\ Titles(task[t]) = <<"Missing article identifier">>
                   /\ "data" \notin DOMAIN task[t].result
                   /\ task[t].queryCalls = 0
                   /\ task[t].findOneCalls = 0 /\ task[t].updateCalls = 0
            /\ ( /\ Truthy(Get(task[t].data, "articleCode"))
                 /\ task[t].data.articleCode \notin DOMAIN articleCodeMap ) =>
                   /\ Titles(task[t]) = <<"Article code not found">>
                   /\ "data" \notin DOMAIN task[t].result
                   /\ task[t].queryCalls = 1
                   /\ task[t].findOneCalls = 0 /\ task[t].updateCalls = 0

C6_Witness ==
    \E t \in Tasks :
        /\ Returned(t)
        /\ Get(task[t].data, "articleCode") = "UNKNOWN_CODE"
        /\ Get(task[t].data, "articleId") = "04768"
        /\ ValidWarehouse(task[t].data.warehouse)
        /\ Titles(task[t]) = <<"Article code not found">>
        /\ task[t].findOneCalls = 0

\* C7 as stated: every returned call whose operative identifier has no row in
\* the store carries the one error 'Stock record not found'.
C7_NoRecordAlways ==
    \A t \in Tasks :
        ( /\ Returned(t)
          /\ Truthy(Operative(task[t].data))
          /\ Operative(task[t].data) \notin DOMAIN ledger ) =>
            Titles(task[t]) = <<"Stock record not found">>

\* C7 amended: a returned call whose warehouse is valid and whose operative
\* identifier has no row in the store carries the one error 'Stock record
\* not found' after one findOne and no update, and no row is ever created;
\* with an invalid warehouse the call returns 'Invalid warehouse' before the
\* store is read.
C7_NoRecordAfterWarehouse ==
    /\ DOMAIN ledger = StoreIds
    /\ \A t \in Tasks :
        ( /\ Returned(t)
          /\ Truthy(Operative(task[t].data))
          /\ Operative(task[t].data) \notin DOMAIN ledger ) =>
            /\ task[t].updateCalls = 0
            /\ "data" \notin DOMAIN task[t].result
            /\ IF ValidWarehouse(task[t].data.warehouse)
               THEN /\ Titles(task[t]) = <<"Stock record not found">>
                    /\ task[t].findOneCalls = 1
               ELSE /\ Titles(task[t]) = <<"Invalid warehouse">>
                    /\ task[t].findOneCalls = 0

C7_Witness ==
    \E t \in Tasks :
        /\ Returned(t)
        /\ "articleCode" \notin DOMAIN task[t].data
        /\ Get(task[t].data, "articleId") = "99999"
        /\ ValidWarehouse(task[t].data.warehouse)
        /\ Titles(task[t]) = <<"Stock record not found">>
        /\ task[t].findOneCalls = 1 /\ task[t].updateCalls = 0

C9_ResolveField ==
    \A t \in Tasks :
        (task[t].op \in Handlers /\ task[t].pc # "idle") =>
            LET data == task[t].data
                w == Str(toLowerCase(data.warehouse))
                pending == "pending" \in DOMAIN data /\ data.pending
            IN  IF w \in {"mdp", "ba", "gp", "ros"}
                THEN task[t].fieldName =
                         (IF pending THEN "pending_" ELSE "stock_") \o w
                ELSE /\ task[t].fieldName = Null
                     /\ task[t].pc = "done"
                     /\ Titles(task[t]) = <<"Invalid warehouse">>

\* a call with an unknown warehouse has returned, after a call that spelled
\* ROS "rOs" with pending true and reserved on pending_ros
C9_Witness ==
    /\ ledger["04768"].pending_ros = 9
    /\ \E t \in Tasks :
        /\ task[t].op \in Handlers
        /\ task[t].data.warehouse = <<"M", "D", "P", "X">>
        /\ task[t].fieldName = Null
        /\ task[t].pc = "done"

\* the rows of a query result, as code -> identifier
RowCodes(rows) == {rows[i].CODIGOPARTICULAR : i \in DOMAIN rows}
RowId(rows, c) ==
    rows[CHOOSE i \in DOMAIN rows : rows[i].CODIGOPARTICULAR = c].CODIGOARTICULO

\* the step in which call t's catalog query returns and fills the mapping
Reloads(t) == task[t].pc = "query" /\ task'[t].pc # "query"

Resolves(t, code) ==
    /\ task[t].pc = "idle"
    /\ task'[t].op = "getArticleId"
    /\ task'[t].data.articleCode = code

\* C11: no step removes a code from the mapping, also when the catalog has
\* lost or changed it; and a getArticleId of a code that is in the mapping
\* returns the mapping's identifier at once, without a catalog query.
C11_EntriesPersist ==
    [][/\ \A c \in DOMAIN articleCodeMap : c \in DOMAIN articleCodeMap'
       /\ \A t \in Tasks : \A c \in DOMAIN articleCodeMap :
              Resolves(t, c) =>
                  /\ task'[t].pc = "done"
                  /\ task'[t].queryCalls = 0
                  /\ task'[t].result = [value |-> articleCodeMap[c]]]_vars

\* a code the catalog no longer has is resolved from the mapping
C11_Witness ==
    \E t \in Tasks :
        /\ task[t].pc = "done" /\ task[t].op = "getArticleId"
        /\ task[t].data.articleCode \in DOMAIN articleCodeMap
        /\ task[t].data.articleCode \notin DOMAIN catalog
        /\ task[t].queryCalls = 0
        /\ task[t].result = [value |-> articleCodeMap[task[t].data.articleCode]]

\* C12: a getArticleId of a code that is not in the mapping sends one catalog
\* query; when the query returns, the call returns the identifier of the
\* code's row, or, the code having no row, the identifier the mapping holds
\* for it, or null when the mapping still does not hold the code; the call
\* has then made exactly one query.
C12_MissReloadsOnce ==
    [][\A t \in Tasks :
          /\ \A c \in ResolveCodes :
                 (Resolves(t, c) /\ c \notin DOMAIN articleCodeMap) =>
                     /\ task'[t].pc = "query"
                     /\ task'[t].queryCalls = 1
          /\ (Reloads(t) /\ task[t].op = "getArticleId") =>
                 LET c == task[t].data.articleCode
                     rows == task[t].rows
                 IN  /\ task'[t].pc = "done"
                     /\ task'[t].queryCalls = 1
                     /\ task'[t].result.value =
                            IF c \in RowCodes(rows) THEN RowId(rows, c)
                            ELSE IF c \in DOMAIN articleCodeMap
                            THEN articleCodeMap[c]
                            ELSE Null
                     /\ task'[t].result.value =
                            IF c \in DOMAIN articleCodeMap'
                            THEN articleCodeMap'[c] ELSE Null]_vars

\* one miss has returned the catalog's identifier, another has returned null
C12_Witness ==
    \E t, u \in Tasks :
        /\ task[t].pc = "done" /\ task[t].op = "getArticleId"
        /\ task[t].queryCalls = 1
        /\ task[t].data.articleCode = "FRI44420"
        /\ task[t].result = [value |-> "04768"]
        /\ task[u].pc = "done" /\ task[u].op = "getArticleId"
        /\ task[u].queryCalls = 1
        /\ task[u].data.articleCode \notin DOMAIN articleCodeMap
        /\ task[u].result = [value |-> Null]

\* call t is a returned getArticleId(c), and the catalog has not changed
\* since it started
ResolvedClean(t, c) ==
    /\ task[t].pc = "done" /\ task[t].op = "getArticleId"
    /\ task[t].data.articleCode = c
    /\ ~task[t].dirty

\* C13: two getArticleId calls of the same code, with no catalog change from
\* the start of the first to the return of the second, return the same
\* identifier.
C13_SameIdentifier ==
    \A t, u \in Tasks : \A c \in ResolveCodes :
        (ResolvedClean(t, c) /\ ResolvedClean(u, c)) =>
            task[t].result = task[u].result

\* C13, second half: a getArticleId of a code that is in the mapping sends
\* no catalog query, and only a code that is not in the mapping sends one.
C13_OnlyMissesQuery ==
    [][\A t \in Tasks : \A c \in ResolveCodes :
          Resolves(t, c) =>
              (task'[t].queryCalls = 1 <=> c \notin DOMAIN articleCodeMap)]_vars

\* the step in which call t, a getAllStock, starts
GetsAll(t) == task[t].pc = "idle" /\ task'[t].op = "getAllStock"

\* the step in which the scan of getAllStock call t returns
Scans(t) ==
    task[t].pc = "findAll" /\ task[t].op = "getAllStock" /\ task'[t].pc = "done"

\* the entry under 'allStock' exists and its time-to-live has not run out
Live == "allStock" \in DOMAIN cache /\ ~Expired(cache["allStock"], now)

\* C14: a getAllStock that starts while the entry is within its time-to-live
\* returns the entry's snapshots, scans nothing and leaves the entry as it
\* is, so two such calls return the same sequence; one that starts after
\* the entry has run out sends one scan, and when the scan returns it has
\* scanned once, returns the store's content and leaves it in the cache.
C14_CachedWithinWindow ==
    [][\A t \in Tasks :
          /\ (GetsAll(t) /\ Live) =>
                 /\ task'[t].pc = "done"
                 /\ task'[t].findAllCalls = 0
                 /\ task'[t].result = [value |-> cache["allStock"].value]
                 /\ cache' = cache
          /\ (GetsAll(t) /\ "allStock" \in DOMAIN cache /\ ~Live) =>
                 /\ task'[t].pc = "findAll"
                 /\ task'[t].findAllCalls = 1
          /\ Scans(t) =>
                 /\ task'[t].findAllCalls = 1
                 /\ task'[t].result = [value |-> FindAll(ledger)]
                 /\ cache'["allStock"].value = FindAll(ledger)
                 /\ cache'["allStock"].start = now]_vars

\* one call has been served from the cache, and after the entry ran out
\* another has scanned again and cached its snapshots
C14_Witness ==
    \E t, u \in Tasks :
        /\ task[t].pc = "done" /\ task[t].op = "getAllStock"
        /\ task[t].findAllCalls = 0
        /\ task[u].pc = "done" /\ task[u].op = "getAllStock"
        /\ task[u].findAllCalls = 1
        /\ ttl > 0
        /\ Live /\ cache["allStock"].start > ttl
        /\ task[u].result = [value |-> cache["allStock"].value]

\* C15: a getAllStock that finds no entry under 'allStock' sends one scan;
\* when it returns, the call has made one set, of the store's rows as plain
\* objects (article_code included) under 'allStock' with the configured
\* time-to-live, the cache holds that sequence, and the call returns it.
C15_MissScansAndStores ==
    [][\A t \in Tasks :
          /\ (GetsAll(t) /\ "allStock" \notin DOMAIN cache) =>
                 /\ task'[t].pc = "findAll"
                 /\ task'[t].findAllCalls = 1
                 /\ task'[t].setCalls = <<>>
          /\ Scans(t) =>
                 LET plain == [i \in 1..Len(StoreOrder) |->
                                  [article_code |-> StoreOrder[i]]
                                      @@ ledger[StoreOrder[i]]]
                 IN  /\ task'[t].setCalls = <<<<"allStock", plain, ttl>>>>
                     /\ cache' = ("allStock" :>
                                     [value |-> plain, start |-> now,
                                      ttl |-> ttl]) @@ cache
                     /\ task'[t].result.value = plain
                     /\ Len(plain) = Cardinality(DOMAIN ledger)]_vars

\* a first call has scanned, stored with a time-to-live of 1 and returned
C15_Witness ==
    \E t \in Tasks :
        /\ task[t].pc = "done" /\ task[t].op = "getAllStock"
        /\ task[t].findAllCalls = 1
        /\ Len(task[t].setCalls) = 1
        /\ task[t].setCalls[1][3] = 1
        /\ task[t].result.value = cache["allStock"].value
        /\ Len(task[t].result.value) = 2

\* C16: the store write of a reserve or release leaves the cache as it is;
\* and a getAllStock that starts while the entry is within its time-to-live
\* returns the entry's snapshots also when the store's content has changed
\* since they were taken.
C16_WritesKeepCache ==
    [][\A t \in Tasks :
          /\ Writes(t) => cache' = cache
          /\ (GetsAll(t) /\ Live /\ cache["allStock"].value # FindAll(ledger)) =>
                 /\ task'[t].result = [value |-> cache["allStock"].value]
                 /\ task'[t].result.value # FindAll(ledger)]_vars

\* a call served from the cache has returned snapshots that the store no
\* longer matches
C16_Witness ==
    \E t \in Tasks :
        /\ task[t].pc = "done" /\ task[t].op = "getAllStock"
        /\ task[t].findAllCalls = 0
        /\ Live
        /\ task[t].result.value = cache["allStock"].value
        /\ task[t].result.value # FindAll(ledger)
        /\ task[t].result.value[1].stock_ba = 4
        /\ ledger["04768"].stock_ba = 9

\* call t is a returned getStockByArticle
ReturnedByArticle(t) ==
    task[t].pc = "done" /\ task[t].op = "getStockByArticle"

\* the identifiers of the codes the catalog has, in the order of the codes
RECURSIVE ResolvedIds(_, _)
ResolvedIds(cat, codes) ==
    IF codes = <<>> THEN <<>>
    ELSE (IF Head(codes) \in DOMAIN cat THEN <<cat[Head(codes)]>> ELSE <<>>)
             \o ResolvedIds(cat, Tail(codes))

\* the codes the catalog does not have, in the order of the codes
RECURSIVE UnresolvedCodes(_, _)
UnresolvedCodes(cat, codes) ==
    IF codes = <<>> THEN <<>>
    ELSE (IF Head(codes) \in DOMAIN cat THEN <<>> ELSE <<Head(codes)>>)
             \o UnresolvedCodes(cat, Tail(codes))

\* the identifiers call t has to look up: those supplied, then those resolved
Wanted(t) ==
    task[t].data.articleId \o ResolvedIds(catalog, task[t].data.articleCode)

Range(seq) == {seq[i] : i \in 1..Len(seq)}

BothIdentifiers(data) ==
    Truthy(Get(data, "articleCode")) /\ Truthy(Get(data, "articleId"))

\* C19: when the payload of a reserve or release carries both articleCode
\* and articleId, the store write is made to the record of the identifier
\* the mapping gives for the code, from the value read in that record, the
\* result names that identifier, and every other record, the one of the
\* supplied articleId included, is as before.
C19_CodeTakesPrecedence ==
    [][\A t \in Tasks :
          (Writes(t) /\ BothIdentifiers(task[t].data)) =>
              LET id == Get(articleCodeMap, task[t].data.articleCode)
                  f == task[t].fieldName
              IN  /\ task[t].articleIdentifier = id
                  /\ task'[t].result.data.id = id
                  /\ ledger'[id][f] =
                         NewValue(task[t].op, ledger[id][f],
                                  task[t].data.quantity)
                  /\ \A other \in DOMAIN ledger \ {id} :
                         ledger'[other] = ledger[other]
                  /\ task[t].findOneCalls = 1]_vars

\* a call with articleId 04768 and a code of 28155 has written to 28155 only
C19_Witness ==
    \E t \in Tasks :
        /\ Returned(t)
        /\ BothIdentifiers(task[t].data)
        /\ task[t].data.articleId = "04768"
        /\ task[t].data.articleCode = "FRI94226"
        /\ task[t].updateCalls = 1
        /\ task[t].result.data.id = "28155"
        /\ ledger["04768"] = StockRow(4)
        /\ ledger["28155"] # StockRow(4)

\* C20: the result of a reserve or release that has written carries the
\* identifier whose record was written (as id and as article_code), under
\* the name of the field written the value the store now holds for it, and
\* under reserved_quantity or released_quantity the quantity of the payload,
\* also when the counter changed by less than that quantity.
C20_ResultEchoesRequest ==
    [][\A t \in Tasks :
          Writes(t) =>
              LET id == task[t].articleIdentifier
                  f == task[t].fieldName
                  res == task'[t].result.data
              IN  /\ id = Operative(task[t].data)
                  /\ res.id = id
                  /\ res.attributes.article_code = id
                  /\ f = resolveFieldName(task[t].data.warehouse,
                                          PendingArg(task[t].data))
                  /\ f \in DOMAIN res.attributes
                  /\ res.attributes[f] = ledger'[id][f]
                  /\ res.attributes[QuantityKey(task[t].op)] =
                         task[t].data.quantity
                  /\ {"reserved_quantity", "released_quantity"}
                         \cap DOMAIN res.attributes = {QuantityKey(task[t].op)}]_vars

\* a release of 10 from a counter of 4 has stored and reported 0 and
\* echoed 10
C20_Witness ==
    \E t \in Tasks :
        /\ Returned(t) /\ task[t].op = "release"
        /\ task[t].updateCalls = 1
        /\ task[t].currentValue = 4
        /\ task[t].data.quantity = 10
        /\ Reported(task[t]) = 0
        /\ task[t].result.data.attributes.released_quantity = 10
        /\ ledger[task[t].articleIdentifier][task[t].fieldName] = 0

\* the step in which a reserve or release call t returns an errors result
Fails(t) ==
    /\ task[t].pc # "done" /\ task'[t].pc = "done"
    /\ task'[t].op \in Handlers
    /\ "errors" \in DOMAIN task'[t].result

\* C21: the store write of a reserve or release sets, together with the
\* counter, the record's date_updated to the time the call read from the
\* clock when it sent the write (never later than the time of the write);
\* no other step changes a date_updated, so a record's date_updated is that
\* of the last write applied to it; a step in which a call returns an error
\* changes no record.
C21_DateUpdatedOnWrite ==
    [][/\ \A t \in Tasks :
             Writes(t) =>
                 LET id == task[t].articleIdentifier IN
                 /\ ledger'[id].date_updated = task[t].updateDate
                 /\ ledger'[id][task[t].fieldName] = task[t].newValue
                 /\ task[t].updateDate <= now
                 /\ \A other \in DOMAIN ledger \ {id} :
                        ledger'[other] = ledger[other]
       /\ (\A t \in Tasks : ~Writes(t)) => ledger' = ledger
       /\ \A t \in Tasks : Fails(t) => ledger' = ledger]_vars

\* a write made after the clock advanced has stamped its record, and a call
\* has returned an error
C21_Witness ==
    \E t, u \in Tasks :
        /\ Returned(t) /\ task[t].updateCalls = 1
        /\ task[t].updateDate > 0
        /\ ledger[task[t].articleIdentifier].date_updated = task[t].updateDate
        /\ Returned(u) /\ "errors" \in DOMAIN task[u].result
        /\ ledger["28155"].date_updated = 0

\* the step in which the collaborator call t waits for fails (faulted:
\* history only)
Faults(t) == ~task[t].faulted /\ task'[t].faulted

GivenIds(c) ==
    IF c = "FRI44420" THEN {"04768"}
    ELSE IF c = "FRI94226" THEN {"28155", "99999"}
    ELSE {}

\* call u has completed a reload of the catalog as it is now
ReloadedCurrent(u) ==
    /\ task[u].pc = "done" /\ task[u].op = "getArticleId"
    /\ task[u].queryCalls = 1
    /\ ~task[u].dirty

\* C23: when a reload that read the catalog as it is now completes, whatever
\* other reloads have completed or are under way, the mapping becomes what
\* one reload of that catalog makes of it: the catalog's identifier for each
\* code of the catalog, and the entries it had for the other codes; the
\* mapping never holds, and getArticleId never returns, for a code an
\* identifier that the catalog has not held for it.
C23_ConcurrentReloadsAgree ==
    [][/\ \A t \in Tasks :
             (Reloads(t) /\ ~task[t].dirty) =>
                 /\ task[t].rows = Query(catalog)
                 /\ \A c \in DOMAIN catalog :
                        Get(articleCodeMap', c) = catalog[c]
                 /\ \A c \in DOMAIN articleCodeMap' \ DOMAIN catalog :
                        /\ c \in DOMAIN articleCodeMap
                        /\ articleCodeMap'[c] = articleCodeMap[c]
       /\ \A c \in DOMAIN articleCodeMap' :
             Get(articleCodeMap', c) \in GivenIds(c)
       /\ \A t \in Tasks :
             (task'[t].pc = "done" /\ task'[t].op = "getArticleId") =>
                 task'[t].result.value
                     \in GivenIds(task'[t].data.articleCode) \cup {Null}]_vars

\* two calls have missed on the empty mapping, each has made its own query
\* of the same catalog, and the mapping is the catalog's
C23_Witness ==
    \E t, u \in Tasks :
        /\ t # u
        /\ ReloadedCurrent(t) /\ ReloadedCurrent(u)
        /\ task[t].rows = task[u].rows
        /\ articleCodeMap = catalog
        /\ task[t].result.value = "04768"

\* call u is a getAllStock that has found no entry and waits for its scan
Scanning(u) == task[u].pc = "findAll" /\ task[u].op = "getAllStock"

\* C24: a getAllStock that starts while another one waits for its scan, and
\* finds no entry, sends its own scan; and a scan that returns when the
\* slot has been filled in the meantime still writes its own snapshots over
\* the entry and returns them, whatever the other call has returned.
C24_NoSingleFlight ==
    [][\A t \in Tasks :
          /\ (GetsAll(t) /\ ~Live /\ \E u \in Tasks \ {t} : Scanning(u)) =>
                 (task'[t].pc = "findAll" /\ task'[t].findAllCalls = 1)
          /\ (Scans(t) /\ "allStock" \in DOMAIN cache) =>
                 /\ cache'["allStock"] =
                        [value |-> FindAll(ledger), start |-> now, ttl |-> ttl]
                 /\ task'[t].result = [value |-> FindAll(ledger)]
                 /\ Len(task'[t].setCalls) = 1
                 /\ \A u \in Tasks \ {t} : task'[u] = task[u]]_vars

\* two calls have each scanned and each written the slot, the second after
\* the clock advanced
C24_Witness ==
    \E t, u \in Tasks :
        /\ t # u
        /\ task[t].pc = "done" /\ task[t].op = "getAllStock"
        /\ task[u].pc = "done" /\ task[u].op = "getAllStock"
        /\ task[t].findAllCalls = 1 /\ task[u].findAllCalls = 1
        /\ Len(task[t].setCalls) = 1 /\ Len(task[u].setCalls) = 1
        /\ calls = 2
        /\ cache["allStock"].start > 0
        /\ cache["allStock"].value = task[u].result.value

\* C25 as stated: with a time-to-live of 0, once the slot is filled its
\* snapshots are never replaced, so that every later getAllStock returns the
\* snapshots of the first call that filled it.
C25_FirstSnapshotForever ==
    [][(ttl = 0 /\ "allStock" \in DOMAIN cache) =>
           /\ "allStock" \in DOMAIN cache'
           /\ cache'["allStock"].value = cache["allStock"].value]_vars

\* C25: with a time-to-live of 0 the entry never runs out: a getAllStock
\* that starts when the slot is filled returns the slot's snapshots and
\* scans nothing, whatever the time and the store's content; the slot is
\* only ever rewritten by a getAllStock that had started before it was
\* filled, and once no such call is under way it stays as it is.
C25_ZeroNeverExpires ==
    [][ttl = 0 =>
           /\ \A t \in Tasks :
                  (GetsAll(t) /\ "allStock" \in DOMAIN cache) =>
                      /\ task'[t].pc = "done"
                      /\ task'[t].findAllCalls = 0
                      /\ task'[t].result = [value |-> cache["allStock"].value]
           /\ "allStock" \in DOMAIN cache =>
                  /\ "allStock" \in DOMAIN cache'
                  /\ cache' # cache => \E u \in Tasks : Scanning(u) /\ Scans(u)
                  /\ (\A u \in Tasks : ~Scanning(u)) =>
                         /\ cache' = cache
                         /\ \A u \in Tasks :
                                ~(task'[u].pc = "findAll"
                                  /\ task'[u].op = "getAllStock")]_vars

\* under a time-to-live of 0, at the last instant of the clock, a call has
\* been served the snapshots taken at instant 0, which the store no longer
\* matches
C25_Witness ==
    \E t \in Tasks :
        /\ ttl = 0 /\ now = MaxClock
        /\ task[t].pc = "done" /\ task[t].op = "getAllStock"
        /\ task[t].findAllCalls = 0
        /\ cache["allStock"].start = 0
        /\ task[t].result.value = cache["allStock"].value
        /\ task[t].result.value # FindAll(ledger)

\* C26: the store write of a reserve or release sets, in the record of the
\* call's identifier, the counter that resolveFieldName gives for the
\* payload's warehouse and pending flag; the other seven counters of that
\* record, every other record, the set of records, the identifier mapping
\* and the aggregate cache are as before.
C26_WriteFrame ==
    [][\A t \in Tasks :
          Writes(t) =>
              LET id == task[t].articleIdentifier
                  f == resolveFieldName(task[t].data.warehouse,
                                        PendingArg(task[t].data))
              IN  /\ id = Operative(task[t].data)
                  /\ f \in Counters
                  /\ ledger'[id][f] = task[t].newValue
                  /\ \A c \in Counters \ {f} : ledger'[id][c] = ledger[id][c]
                  /\ DOMAIN ledger'[id] = Counters \cup {"date_updated"}
                  /\ DOMAIN ledger' = DOMAIN ledger
                  /\ \A other \in DOMAIN ledger \ {id} :
                         ledger'[other] = ledger[other]
                  /\ articleCodeMap' = articleCodeMap
                  /\ cache' = cache]_vars

\* with the mapping loaded and the cache filled, a reserve of 5 on pending
\* MDP has left pending_mdp at 9 and the rest of the table at 4
C26_Witness ==
    \E t \in Tasks :
        /\ Returned(t) /\ task[t].op = "reserve" /\ task[t].updateCalls = 1
        /\ task[t].fieldName = "pending_mdp"
        /\ articleCodeMap = InitialCatalog
        /\ "allStock" \in DOMAIN cache
        /\ ledger["04768"].pending_mdp = 9
        /\ \A c \in Counters \ {"pending_mdp"} : ledger["04768"][c] = 4
        /\ ledger["28155"] = StockRow(4)

\* the title of the first validation that the payload fails, in the order
\* identifier, warehouse, store lookup; none when it passes all three
FirstFailure(data) ==
    IF NoIdentifier(data) THEN <<"Missing article identifier">>
    ELSE IF ~Truthy(Operative(data)) THEN <<"Article code not found">>
    ELSE IF ~ValidWarehouse(data.warehouse) THEN <<"Invalid warehouse">>
    ELSE IF Operative(data) \notin DOMAIN ledger
    THEN <<"Stock record not found">>
    ELSE <<>>

\* C27: a returned reserve or release carries the error of the first
\* validation its payload fails, in the order identifier, warehouse, store
\* lookup, and that error alone, or data when it fails none; it has read the
\* store only when identifier and warehouse were both valid, and written it
\* only when the record was found.
C27_ValidationOrder ==
    \A t \in Tasks :
        Returned(t) =>
            LET data == task[t].data
                first == FirstFailure(data)
            IN  /\ Titles(task[t]) = first
                /\ Len(Titles(task[t])) <= 1
                /\ ("data" \in DOMAIN task[t].result) <=> (first = <<>>)
                /\ task[t].findOneCalls =
                       IF first \in {<<>>, <<"Stock record not found">>}
                       THEN 1 ELSE 0
                /\ task[t].updateCalls = IF first = <<>> THEN 1 ELSE 0

\* one call with an unknown code and an invalid warehouse has returned
\* 'Article code not found' alone; another with an identifier that has no
\* record and an invalid warehouse has returned 'Invalid warehouse' alone,
\* without a store read
C27_Witness ==
    \E t, u \in Tasks :
        /\ Returned(t)
        /\ Get(task[t].data, "articleCode") = "UNKNOWN_CODE"
        /\ ~ValidWarehouse(task[t].data.warehouse)
        /\ Titles(task[t]) = <<"Article code not found">>
        /\ Returned(u)
        /\ Get(task[u].data, "articleId") = "99999"
        /\ "99999" \notin DOMAIN ledger
        /\ ~ValidWarehouse(task[u].data.warehouse)
        /\ Titles(task[u]) = <<"Invalid warehouse">>
        /\ task[u].findOneCalls = 0

\* calls t and u are the only two calls so far, both returned reserves of a
\* positive quantity that have written the same counter
TwoReserves(t, u) ==
    /\ t # u /\ calls = 2
    /\ Returned(t) /\ Returned(u)
    /\ task[t].op = "reserve" /\ task[u].op = "reserve"
    /\ task[t].updateCalls = 1 /\ task[u].updateCalls = 1
    /\ task[t].data.quantity > 0 /\ task[u].data.quantity > 0
    /\ task[t].articleIdentifier = task[u].articleIdentifier
    /\ task[t].fieldName = task[u].fieldName

\* the value a counter of the record had at the start: that of a counter no
\* call writes
SeedOf(id) == ledger[id].stock_ros

\* C28: after two concurrent reserves of q1 > 0 and q2 > 0 on a counter that
\* was c, the counter is c + q1, c + q2 or c + q1 + q2, and it is the value
\* one of the two calls reports; each call reports its quantity added to c
\* or to what the other call wrote, which is the value it wrote itself.
C28_LostUpdateOutcomes ==
    \A t, u \in Tasks :
        TwoReserves(t, u) =>
            LET id == task[t].articleIdentifier
                final == ledger[id][task[t].fieldName]
                c == SeedOf(id)
                q1 == task[t].data.quantity
                q2 == task[u].data.quantity
            IN  /\ final \in {c + q1, c + q2, c + q1 + q2}
                /\ final \in {Reported(task[t]), Reported(task[u])}
                /\ Reported(task[t]) \in {c + q1, c + q1 + q2}
                /\ Reported(task[t]) = task[t].newValue

\* reserves of 5 and 10 on a counter of 4 have both read 4; the counter is
\* left at 9
C28_Witness ==
    \E t, u \in Tasks :
        /\ TwoReserves(t, u)
        /\ SeedOf(task[t].articleIdentifier) = 4
        /\ task[t].data.quantity = 5 /\ task[u].data.quantity = 10
        /\ task[t].currentValue = 4 /\ task[u].currentValue = 4
        /\ Reported(task[t]) = 9 /\ Reported(task[u]) = 14
        /\ ledger[task[t].articleIdentifier][task[t].fieldName] = 9

\* calls t and u are the only two calls so far, a reserve and a release of
\* the same positive quantity on the same counter, both returned, neither
\* having written a value computed from a read that the other had overtaken
ReserveAndRelease(t, u) ==
    /\ calls = 2
    /\ Returned(t) /\ task[t].op = "reserve" /\ task[t].updateCalls = 1
    /\ Returned(u) /\ task[u].op = "release" /\ task[u].updateCalls = 1
    /\ task[t].data.quantity = task[u].data.quantity
    /\ task[t].data.quantity > 0
    /\ task[t].articleIdentifier = task[u].articleIdentifier
    /\ task[t].fieldName = task[u].fieldName
    /\ ~task[t].stale /\ ~task[u].stale

\* C29: a reserve of q > 0 followed by a release of q leaves the counter at
\* the value c it had; a release of q followed by a reserve of q leaves it
\* at c when q <= c and at q when q > c.
C29_RoundTrip ==
    \A t, u \in Tasks :
        ReserveAndRelease(t, u) =>
            LET id == task[t].articleIdentifier
                final == ledger[id][task[t].fieldName]
                c == SeedOf(id)
                q == task[t].data.quantity
                reserveFirst == /\ task[t].currentValue = c
                                /\ task[u].currentValue = task[t].newValue
                releaseFirst == /\ task[u].currentValue = c
                                /\ task[t].currentValue = task[u].newValue
            IN  /\ reserveFirst \/ releaseFirst
                /\ reserveFirst => final = c
                /\ releaseFirst => final = IF q <= c THEN c ELSE q

\* a release of 5 from 4 and then a reserve of 5 have left the counter at 5
C29_Witness ==
    \E t, u \in Tasks :
        /\ ReserveAndRelease(t, u)
        /\ SeedOf(task[t].articleIdentifier) = 4
        /\ task[t].data.quantity = 5
        /\ task[u].currentValue = 4 /\ task[u].newValue = 0
        /\ task[t].currentValue = 0
        /\ ledger[task[t].articleIdentifier][task[t].fieldName] = 5

====
